---- MODULE Spec2Model ----
(***************************************************************************)
(* Model of the reviewbot pull-request handler: skip check, diff + lint    *)
(* shell pipeline, result formatting and reporting (warnings, failed       *)
(* status, step summary).  Strings that the code inspects (bodies, rule    *)
(* names, file paths) are sequences of one-character strings.              *)
(***************************************************************************)
EXTENDS Integers, Sequences, FiniteSets, TLC

\* ------------------------------------------------------------------ bounds
MaxChanged == 2
MaxMsgs == 1

\* --------------------------------------------------------- JS value helpers
Null == <<"<null>">>
Undefined == <<"<undefined>">>

Truthy(s) == s # Null /\ s # Undefined /\ s # <<>>

Includes(s, sub) ==
  \E i \in 1..(Len(s) - Len(sub) + 1) : SubSeq(s, i, i + Len(sub) - 1) = sub

StartsWith(s, p) == Len(s) >= Len(p) /\ SubSeq(s, 1, Len(p)) = p

HasSlash(s) == \E i \in 1..Len(s) : s[i] = "/"

FirstSlash(s) == CHOOSE i \in 1..Len(s) : s[i] = "/" /\ \A j \in 1..(i - 1) : s[j] # "/"

RECURSIVE Split(_)
Split(s) ==
  IF ~HasSlash(s) THEN <<s>>
  ELSE <<SubSeq(s, 1, FirstSlash(s) - 1)>> \o Split(SubSeq(s, FirstSlash(s) + 1, Len(s)))

RECURSIVE Join(_)
Join(segs) ==
  IF segs = <<>> THEN <<>>
  ELSE IF Len(segs) = 1 THEN segs[1]
  ELSE segs[1] \o <<"/">> \o Join(Tail(segs))

\* ------------------------------------------------------------- skip check
MarkerReviewSkip == <<"[","r","e","v","i","e","w"," ","s","k","i","p","]">>
MarkerNoReview == <<"[","n","o"," ","r","e","v","i","e","w","]">>
MarkerSkipReview == <<"[","s","k","i","p"," ","r","e","v","i","e","w","]">>

\* variant: the marker is looked for at the start of the body only
shouldBeSkippedStartsWith(body) ==
  IF Truthy(body)
    THEN StartsWith(body, MarkerReviewSkip) \/ StartsWith(body, MarkerNoReview)
         \/ StartsWith(body, MarkerSkipReview)
    ELSE FALSE

\* variant: the '[no review]' marker is not looked for
shouldBeSkippedTwoMarkers(body) ==
  IF Truthy(body)
    THEN Includes(body, MarkerReviewSkip) \/ Includes(body, MarkerSkipReview)
    ELSE FALSE

shouldBeSkipped(body) ==
  IF Truthy(body)
    THEN Includes(body, MarkerReviewSkip) \/ Includes(body, MarkerNoReview)
         \/ Includes(body, MarkerSkipReview)
    ELSE FALSE

\* -------------------------------------------------------- rule documentation
\* variant: an unknown namespace falls back to the eslint.org page
ruleUrlFallbackEslint(ruleName) ==
  LET splittedRuleName == Split(ruleName) IN
  IF Len(splittedRuleName) = 1
       \/ splittedRuleName[1] \notin
            { <<"j","e","s","t">>,
              <<"t","e","s","t","i","n","g","-","l","i","b","r","a","r","y">>,
              <<"@","t","y","p","e","s","c","r","i","p","t","-","e","s","l","i","n","t">> }
    THEN <<"https://eslint.org/docs/rules/">> \o ruleName
    ELSE LET domain == splittedRuleName[1]
             ruleId == splittedRuleName[2]
         IN IF domain = <<"j","e","s","t">>
              THEN <<"https://github.com/jest-community/eslint-plugin-jest/blob/main/docs/rules/">>
                   \o ruleId \o <<".md">>
            ELSE IF domain = <<"t","e","s","t","i","n","g","-","l","i","b","r","a","r","y">>
              THEN <<"https://github.com/testing-library/eslint-plugin-testing-library/blob/main/docs/rules/">>
                   \o ruleId \o <<".md">>
            ELSE <<"https://github.com/typescript-eslint/typescript-eslint/blob/main/packages/eslint-plugin/docs/rules/">>
                   \o ruleId \o <<".md">>

ruleUrl(ruleName) ==
  LET splittedRuleName == Split(ruleName) IN
  IF Len(splittedRuleName) = 1
    THEN <<"https://eslint.org/docs/rules/">> \o ruleName
    ELSE LET domain == splittedRuleName[1]
             ruleId == splittedRuleName[2]
         IN IF domain = <<"j","e","s","t">>
              THEN <<"https://github.com/jest-community/eslint-plugin-jest/blob/main/docs/rules/">>
                   \o ruleId \o <<".md">>
            ELSE IF domain = <<"t","e","s","t","i","n","g","-","l","i","b","r","a","r","y">>
              THEN <<"https://github.com/testing-library/eslint-plugin-testing-library/blob/main/docs/rules/">>
                   \o ruleId \o <<".md">>
            ELSE IF domain = <<"@","t","y","p","e","s","c","r","i","p","t","-","e","s","l","i","n","t">>
              THEN <<"https://github.com/typescript-eslint/typescript-eslint/blob/main/packages/eslint-plugin/docs/rules/">>
                   \o ruleId \o <<".md">>
            ELSE Undefined

formatRuleMessage(ruleName) ==
  LET url == ruleUrl(ruleName) IN
  IF Truthy(url) THEN <<"See ">> \o url \o <<" for details.">>
  ELSE <<"No further rule information available.">>

\* ------------------------------------------------------------------ summary
\* variant: the boundaries are inclusive
worriedEmojiInclusive(numberOfErrors) ==
  IF numberOfErrors >= 100 THEN ":sob:"
  ELSE IF numberOfErrors >= 10 THEN ":disappointed_relieved:"
  ELSE ":worried:"

worriedEmoji(numberOfErrors) ==
  IF numberOfErrors > 100 THEN ":sob:"
  ELSE IF numberOfErrors > 10 THEN ":disappointed_relieved:"
  ELSE ":worried:"

\* -------------------------------------------------------------------- paths
Cwd == <<"/","w">>
Prefix == <<"p","k","g">>

Segments(p) == SelectSeq(Split(p), LAMBDA seg : seg # <<>> /\ seg # <<".">>)

RECURSIVE CommonLen(_, _)
CommonLen(a, b) ==
  IF a = <<>> \/ b = <<>> \/ a[1] # b[1] THEN 0
  ELSE 1 + CommonLen(Tail(a), Tail(b))

PathRelative(from, to) ==
  LET f == Segments(from)
      t == Segments(to)
      k == CommonLen(f, t)
  IN Join([i \in 1..(Len(f) - k) |-> <<".", ".">>] \o SubSeq(t, k + 1, Len(t)))

normalizeFilename(filename, workingDirectory) ==
  PathRelative(Cwd \o <<"/">> \o workingDirectory, filename)

\* ------------------------------------------------------------- environment
\* Pull-request bodies the API may return.
Fillers == { <<>>, <<"p","l","e","a","s","e"," ","r","e","v","i","e","w"," ">> }
Trailers == { <<>>, <<" ","t","h","a","n","k","s">> }
Markers == { MarkerReviewSkip, MarkerNoReview, MarkerSkipReview }
PlainBodies == { Null, <<>>, <<"f","i","x"," ","[","s","k","i","p","]">> }
MarkedBodies == { pre \o m \o post : pre \in Fillers, m \in Markers, post \in Trailers }
OtherCaseBodies ==
  { <<"[","S","K","I","P"," ","R","E","V","I","E","W","]">>,
    <<"s","e","e"," ","[","N","o"," ","R","e","v","i","e","w","]">>,
    <<"[","R","E","V","I","E","W"," ","S","K","I","P","]"," ","t","h","x">> }
Bodies == PlainBodies \cup MarkedBodies \cup OtherCaseBodies

\* Files git may report as changed between base and head: path and status.
Candidates ==
  << [path |-> <<"p","k","g","/","a",".","t","s">>, status |-> "A"],
     [path |-> <<"p","k","g","/","b",".","j","s","x">>, status |-> "R"],
     [path |-> <<"p","k","g","/","c",".","m","j","s">>, status |-> "M"],
     [path |-> <<"p","k","g","/","d",".","j","s">>, status |-> "D"],
     [path |-> <<"l","i","b","/","e",".","j","s">>, status |-> "M"],
     [path |-> <<"p","k","g","/","f",".","m","d">>, status |-> "C"] >>
ChangedSets == { c \in SUBSET (1..Len(Candidates)) : Cardinality(c) <= MaxChanged }

\* Rule identifiers the linter may report.
Rules ==
  << <<"s","e","m","i">>,
     <<"j","e","s","t","/","n","o","-","i","f">>,
     <<"r","e","a","c","t","/","j","s","x","-","k","e","y">>,
     <<"t","e","s","t","i","n","g","-","l","i","b","r","a","r","y","/","n","o","-","d","o","m">>,
     <<"@","t","y","p","e","s","c","r","i","p","t","-","e","s","l","i","n","t","/","b","a","n">>,
     <<"j","e","s","t","/","a","/","b">>,
     <<"i","m","p","o","r","t","/">> >>

\* Finding counts a file may carry: small counts, and for the first file of a
\* report also the counts around the summary boundaries.
MsgCounts(j) == (0..MaxMsgs) \cup (IF j = 1 THEN {10, 11, 100, 101} ELSE {})

\* The i-th message the linter reports for the j-th linted file.
Finding(j, i) ==
  [ ruleId |-> Rules[((i + j - 2) % Len(Rules)) + 1],
    severity |-> 1,
    message |-> "finding " \o ToString(i),
    line |-> i, column |-> j, endLine |-> i + 1, endColumn |-> j + 3 ]

RECURSIVE CountChoices(_)
CountChoices(n) ==
  IF n = 0 THEN {<<>>}
  ELSE { Append(c, k) : c \in CountChoices(n - 1), k \in MsgCounts(n) }

\* -------------------------------------------------------- the shell pipeline
DiffFilter == {"A", "C", "M", "R"}

\* git diff --name-only --diff-filter=ACMR base...head
GitDiff(diffOk, changed) ==
  IF diffOk
    THEN LET sel == SelectSeq([i \in 1..Len(Candidates) |-> i],
                              LAMBDA i : i \in changed /\ Candidates[i].status \in DiffFilter)
         IN [k \in 1..Len(sel) |-> Candidates[sel[k]].path]
    ELSE <<>>

\* grep -E '^${prefix}/(.*).[jt]s(x)?$'
GrepMatches(prefix, line) ==
  /\ StartsWith(line, prefix \o <<"/">>)
  /\ LET rest == SubSeq(line, Len(prefix) + 2, Len(line))
         n == Len(rest)
     IN \/ n >= 3 /\ rest[n] = "s" /\ rest[n - 1] \in {"j", "t"}
        \/ n >= 4 /\ rest[n] = "x" /\ rest[n - 1] = "s" /\ rest[n - 2] \in {"j", "t"}

\* sed 's,^${prefix}/,,'
Sed(prefix, line) ==
  IF StartsWith(line, prefix \o <<"/">>) THEN SubSeq(line, Len(prefix) + 2, Len(line)) ELSE line

\* the file arguments xargs hands to the linter
LintArgs(prefix, diffOk, changed) ==
  LET kept == SelectSeq(GitDiff(diffOk, changed), LAMBDA l : GrepMatches(prefix, l))
  IN [k \in 1..Len(kept) |-> Sed(prefix, kept[k])]

\* the linter's report: one FileResult per linted file, absolute paths
LintReport(args, prefix, workingDirectory, counts) ==
  [ j \in 1..Len(args) |->
      [ filePath |-> <<"/">> \o Join(Segments(Cwd) \o Segments(workingDirectory)
                                     \o Segments(prefix) \o Segments(args[j])),
        messages |-> [i \in 1..counts[j] |-> Finding(j, i)] ] ]

NullStatus == -1
Statuses == {0, 1, NullStatus}
NoStdout == [kind |-> "text", value |-> <<>>]
NoProc == [status |-> NullStatus, error |-> "none", stdout |-> NoStdout]

\* what spawnSync may return for the pipeline run on the given arguments
\* (environment choice: exit 0, non-zero exit, or no status after the timeout;
\* stdout is a report for the given files, other JSON, or text that is not JSON)
ProcResults(args, prefix, workingDirectory) ==
  { [status |-> st,
     error |-> IF st = NullStatus THEN "ETIMEDOUT" ELSE "undefined",
     stdout |-> out] :
      st \in Statuses,
      out \in { NoStdout, [kind |-> "object", value |-> <<>>] }
              \cup { [kind |-> "report", value |-> LintReport(args, prefix, workingDirectory, c)] :
                       c \in CountChoices(Len(args)) } }

\* variant: the exit status is ignored and stdout is always resolved
execIgnoringStatus(result) == [ok |-> TRUE, value |-> result.stdout]

\* exec: resolve(stdout) only on exit status 0, reject(result.error) otherwise
exec(result) == IF result.status = 0 THEN [ok |-> TRUE, value |-> result.stdout]
                ELSE [ok |-> FALSE, value |-> NoStdout]

\* --------------------------------------------------------------- the handler
VARIABLES pc, inputs, body, diff, lintArgs, proc, results, filesWithErrors,
          totalErrors, warnings, failed, summary, error, lintInvoked, emojiCalls

vars == <<pc, inputs, body, diff, lintArgs, proc, results, filesWithErrors,
          totalErrors, warnings, failed, summary, error, lintInvoked, emojiCalls>>

NoInputs == [prefix |-> <<>>, workingDirectory |-> <<>>, summaryFile |-> "undefined"]
NoDiff == [ok |-> TRUE, changed |-> {}]
SummaryFiles == {"undefined", "summary.md", "/missing/summary.md"}
Terminal == {"done", "skipped", "error"}

Init ==
  /\ pc = "idle" /\ inputs = NoInputs /\ body = Null /\ diff = NoDiff
  /\ lintArgs = <<>> /\ proc = NoProc /\ results = NoStdout /\ filesWithErrors = <<>>
  /\ totalErrors = 0 /\ warnings = <<>> /\ failed = <<>> /\ summary = <<>>
  /\ error = "" /\ lintInvoked = FALSE /\ emojiCalls = <<>>

Throw(e) == pc' = "error" /\ error' = e

\* a pull_request.opened / pull_request.synchronize event starts a fresh run
PullRequestEvent ==
  /\ pc \in {"idle"} \cup Terminal
  /\ \E p \in {<<>>, Prefix}, wd \in {<<>>, <<"w","e","b">>}, sf \in SummaryFiles :
       inputs' = [prefix |-> p, workingDirectory |-> wd, summaryFile |-> sf]
  /\ pc' = "inputs" /\ body' = Null /\ diff' = NoDiff /\ lintArgs' = <<>>
  /\ proc' = NoProc /\ results' = NoStdout /\ filesWithErrors' = <<>> /\ totalErrors' = 0
  /\ warnings' = <<>> /\ failed' = <<>> /\ summary' = <<>> /\ error' = ""
  /\ lintInvoked' = FALSE /\ emojiCalls' = <<>>

\* variant: the prefix input is read without { required: true }
GetInputsOptional ==
  /\ pc = "inputs"
  /\ pc' = "fetch"
  /\ UNCHANGED <<inputs, body, diff, lintArgs, proc, results, filesWithErrors,
                 totalErrors, warnings, failed, summary, error, lintInvoked, emojiCalls>>

\* core.getInput('prefix', { required: true })
GetInputs ==
  /\ pc = "inputs"
  /\ IF inputs.prefix = <<>>
       THEN Throw("Input required and not supplied: prefix")
       ELSE pc' = "fetch" /\ UNCHANGED error
  /\ UNCHANGED <<inputs, body, diff, lintArgs, proc, results, filesWithErrors,
                 totalErrors, warnings, failed, summary, lintInvoked, emojiCalls>>

\* context.pullRequest() and octokit.pulls.get
FetchPullRequest ==
  /\ pc = "fetch"
  /\ \/ \E b \in Bodies : body' = b /\ pc' = "skipcheck" /\ UNCHANGED error
     \/ Throw("HttpError") /\ UNCHANGED body
  /\ UNCHANGED <<inputs, diff, lintArgs, proc, results, filesWithErrors,
                 totalErrors, warnings, failed, summary, lintInvoked, emojiCalls>>

SkipCheck ==
  /\ pc = "skipcheck"
  /\ pc' = IF shouldBeSkipped(body) THEN "skipped" ELSE "lint"
  /\ UNCHANGED <<inputs, body, diff, lintArgs, proc, results, filesWithErrors,
                 totalErrors, warnings, failed, summary, error, lintInvoked, emojiCalls>>

\* lintDiff: build the command and await exec(cmd)
LintDiffExec ==
  /\ pc = "lint"
  /\ \E ok \in BOOLEAN, ch \in ChangedSets :
       /\ (~ok => ch = {})
       /\ diff' = [ok |-> ok, changed |-> ch]
       /\ lintArgs' = LintArgs(inputs.prefix, ok, ch)
       /\ \E r \in ProcResults(LintArgs(inputs.prefix, ok, ch), inputs.prefix,
                               inputs.workingDirectory) :
            /\ proc' = r
            /\ IF exec(r).ok THEN pc' = "parse" /\ UNCHANGED error
               ELSE Throw(r.error)
  /\ lintInvoked' = TRUE
  /\ UNCHANGED <<inputs, body, results, filesWithErrors, totalErrors, warnings,
                 failed, summary, emojiCalls>>

\* JSON.parse(result) as Array<File>
ParseReport ==
  /\ pc = "parse"
  /\ IF exec(proc).value.kind = "text"
       THEN Throw("SyntaxError") /\ UNCHANGED results
       ELSE results' = exec(proc).value /\ pc' = "filter" /\ UNCHANGED error
  /\ UNCHANGED <<inputs, body, diff, lintArgs, proc, filesWithErrors, totalErrors,
                 warnings, failed, summary, lintInvoked, emojiCalls>>

\* variant: the files with findings are counted, not their messages
SumLengthsCountsFiles(files) == Len(files)

RECURSIVE SumLengths(_)
SumLengths(files) ==
  IF files = <<>> THEN 0 ELSE Len(files[1].messages) + SumLengths(Tail(files))

\* results.filter(...) and the map/reduce that totals the messages
FilterAndCount ==
  /\ pc = "filter"
  /\ IF results.kind # "report"
       THEN Throw("TypeError") /\ UNCHANGED <<filesWithErrors, totalErrors>>
       ELSE /\ filesWithErrors' = SelectSeq(results.value, LAMBDA f : Len(f.messages) > 0)
            /\ totalErrors' = SumLengths(SelectSeq(results.value, LAMBDA f : Len(f.messages) > 0))
            /\ pc' = "report" /\ UNCHANGED error
  /\ UNCHANGED <<inputs, body, diff, lintArgs, proc, results, warnings, failed,
                 summary, lintInvoked, emojiCalls>>

annotation(file, message, workingDirectory) ==
  [ message |-> formatRuleMessage(message.ruleId),
    title |-> message.message,
    file |-> normalizeFilename(file.filePath, workingDirectory),
    startLine |-> message.line, startColumn |-> message.column,
    endLine |-> message.endLine, endColumn |-> message.endColumn ]

\* variant: only the first message of each file is annotated
RECURSIVE flatMapFirstMessage(_, _)
flatMapFirstMessage(files, workingDirectory) ==
  IF files = <<>> THEN <<>>
  ELSE <<annotation(files[1], files[1].messages[1], workingDirectory)>>
       \o flatMapFirstMessage(Tail(files), workingDirectory)

RECURSIVE flatMap(_, _)
flatMap(files, workingDirectory) ==
  IF files = <<>> THEN <<>>
  ELSE [i \in 1..Len(files[1].messages) |->
          annotation(files[1], files[1].messages[i], workingDirectory)]
       \o flatMap(Tail(files), workingDirectory)

\* annotations.forEach(core.warning)
Annotate ==
  /\ pc = "report" /\ totalErrors > 0
  /\ warnings' = flatMap(filesWithErrors, inputs.workingDirectory)
  /\ pc' = "setFailed"
  /\ UNCHANGED <<inputs, body, diff, lintArgs, proc, results, filesWithErrors,
                 totalErrors, failed, summary, error, lintInvoked, emojiCalls>>

SetFailed ==
  /\ pc = "setFailed"
  /\ failed' = Append(failed, "Found " \o ToString(totalErrors) \o " linter hints in the changed code.")
  /\ pc' = "summaryFound"
  /\ UNCHANGED <<inputs, body, diff, lintArgs, proc, results, filesWithErrors,
                 totalErrors, warnings, summary, error, lintInvoked, emojiCalls>>

\* writeSummary: throws without GITHUB_STEP_SUMMARY, else fs.writeFileSync
writeSummary(text) ==
  IF inputs.summaryFile = "undefined"
    THEN Throw("No step summary filename passed in environment!") /\ UNCHANGED summary
  ELSE IF inputs.summaryFile = "/missing/summary.md"
    THEN Throw("ENOENT") /\ UNCHANGED summary
  ELSE summary' = Append(summary, text) /\ pc' = "done" /\ UNCHANGED error

WriteSummaryFound ==
  /\ pc = "summaryFound"
  /\ emojiCalls' = Append(emojiCalls, [numberOfErrors |-> totalErrors,
                                       emoji |-> worriedEmoji(totalErrors)])
  /\ writeSummary("## Found " \o ToString(totalErrors) \o " linter hints in the changed code. "
                  \o worriedEmoji(totalErrors))
  /\ UNCHANGED <<inputs, body, diff, lintArgs, proc, results, filesWithErrors,
                 totalErrors, warnings, failed, lintInvoked>>

WriteSummaryAwesome ==
  /\ pc = "report" /\ ~(totalErrors > 0)
  /\ writeSummary("## Your code looks awesome! :rocket:")
  /\ UNCHANGED <<inputs, body, diff, lintArgs, proc, results, filesWithErrors,
                 totalErrors, warnings, failed, lintInvoked, emojiCalls>>

Next ==
  \/ PullRequestEvent
  \/ GetInputs
  \/ FetchPullRequest
  \/ SkipCheck
  \/ LintDiffExec
  \/ ParseReport
  \/ FilterAndCount
  \/ Annotate
  \/ SetFailed
  \/ WriteSummaryFound
  \/ WriteSummaryAwesome

Spec == Init /\ [][Next]_vars

\* =================================================================== claims
PrefixError == "Input required and not supplied: prefix"
SummaryEnvError == "No step summary filename passed in environment!"
AwesomeSummary == "## Your code looks awesome! :rocket:"
FailedMessage(n) == "Found " \o ToString(n) \o " linter hints in the changed code."

\* the run got past the skip check (inputs and pull-request fetch succeeded)
SkipDecided ==
  \/ pc \in {"skipped", "lint", "parse", "filter", "report", "setFailed", "summaryFound", "done"}
  \/ pc = "error" /\ error \notin {PrefixError, "HttpError"}

\* total number of findings of the parsed report, counted file by file
RECURSIVE FindingsBefore(_, _)
FindingsBefore(files, j) ==
  IF j <= 1 THEN 0 ELSE FindingsBefore(files, j - 1) + Len(files[j - 1].messages)

TotalFindings == FindingsBefore(results.value, Len(results.value) + 1)

ReportParsed == results.kind = "report"

\* the run is over and had reached the reporter
ReporterEnded == pc = "done" \/ (pc = "error" /\ error \in {SummaryEnvError, "ENOENT"})

\* C1: once inputs and fetch succeeded, the diff/lint pipeline is invoked
\* exactly when the body carries none of the three lower-case markers (null
\* and empty bodies never skip); a skipped run has invoked nothing and has
\* emitted no warning, no failed status and no summary.
C1_SkipIffMarker ==
  SkipDecided =>
    /\ (pc = "skipped") <=> (body \in MarkedBodies)
    /\ lintInvoked => body \notin MarkedBodies
    /\ pc \notin {"skipped", "lint"} => lintInvoked
    /\ pc = "skipped" =>
         /\ ~lintInvoked /\ lintArgs = <<>> /\ proc = NoProc
         /\ warnings = <<>> /\ failed = <<>> /\ summary = <<>> /\ error = ""

C1_Witness ==
  /\ pc = "skipped"
  /\ body = <<"p","l","e","a","s","e"," ","r","e","v","i","e","w"," ">>
            \o MarkerSkipReview \o <<" ","t","h","a","n","k","s">>

\* C2 (as stated): a body containing a marker in any letter case is never
\* linted and never annotated.
C2_AnyCaseSkips ==
  body \in MarkedBodies \cup OtherCaseBodies => ~lintInvoked /\ warnings = <<>>

\* C2 (amended): a body containing one of the three markers in exactly the
\* lower-case spelling is never linted and never annotated.
C2_ExactCaseSkips ==
  body \in MarkedBodies => ~lintInvoked /\ warnings = <<>> /\ pc \in {"skipcheck", "skipped"}

C2_Witness == pc = "skipped" /\ body = MarkerNoReview

\* C3: when the report was parsed and the run is over, the warnings are
\* exactly the findings of the report in order: as many as the message
\* counts add up to, none for a file without findings, and the k-th finding
\* of the j-th file yields one warning with that file's path under the
\* prefix and the finding's span.
C3_OneWarningPerFinding ==
  (ReportParsed /\ ReporterEnded) =>
    /\ Len(warnings) = TotalFindings
    /\ \A j \in 1..Len(results.value) :
         \A i \in 1..Len(results.value[j].messages) :
           LET w == warnings[FindingsBefore(results.value, j) + i]
               m == results.value[j].messages[i]
           IN /\ w.file = Prefix \o <<"/">> \o lintArgs[j]
              /\ w.title = m.message
              /\ w.startLine = m.line /\ w.startColumn = m.column
              /\ w.endLine = m.endLine /\ w.endColumn = m.endColumn

C3_Witness ==
  /\ pc = "done" /\ Len(results.value) = 2
  /\ Len(results.value[1].messages) = 0 /\ Len(results.value[2].messages) = 1
  /\ Len(warnings) = 1

Emojis == {":worried:", ":disappointed_relieved:", ":sob:"}

FoundSummaries(n) ==
  { "## Found " \o ToString(n) \o " linter hints in the changed code. " \o e : e \in Emojis }

\* C4 (as stated): every run that reached the reporter ends with a summary;
\* with N > 0 findings it is failed with the count and the summary states N,
\* with N = 0 it is not failed and the summary is the positive one.
C4_AlwaysSummary ==
  (ReportParsed /\ ReporterEnded) =>
    /\ Len(summary) = 1
    /\ TotalFindings > 0 => failed = <<FailedMessage(TotalFindings)>>
                            /\ summary[1] \in FoundSummaries(TotalFindings)
    /\ TotalFindings = 0 => failed = <<>> /\ summary = <<AwesomeSummary>>

\* C4 (amended): a run that reached the reporter is failed with the count N
\* exactly when N > 0; if GITHUB_STEP_SUMMARY names a writable file the run
\* ends with exactly one summary (stating N, or the positive one when N = 0),
\* otherwise it ends in an error without any summary.
C4_SummaryWhenSinkUsable ==
  (ReportParsed /\ ReporterEnded) =>
    /\ TotalFindings > 0 => failed = <<FailedMessage(TotalFindings)>>
    /\ TotalFindings = 0 => failed = <<>>
    /\ IF inputs.summaryFile = "summary.md"
         THEN /\ pc = "done" /\ Len(summary) = 1
              /\ TotalFindings > 0 => summary[1] \in FoundSummaries(TotalFindings)
              /\ TotalFindings = 0 => summary = <<AwesomeSummary>>
         ELSE pc = "error" /\ summary = <<>>

C4_Witness ==
  /\ pc = "done" /\ ReportParsed /\ TotalFindings = 2
  /\ failed = <<FailedMessage(2)>> /\ Len(summary) = 1

ConfigErrors == {PrefixError, SummaryEnvError}

\* C5 (as stated): a run that ends in a configuration error has not invoked
\* the linter and has emitted no warning and no failed status.
C5_ConfigErrorBeforeLint ==
  (pc = "error" /\ error \in ConfigErrors) =>
    ~lintInvoked /\ warnings = <<>> /\ failed = <<>>

\* C5 (amended): a missing prefix input aborts the run before the linter is
\* invoked and before any warning, failed status or summary; a missing
\* GITHUB_STEP_SUMMARY is raised only when the summary is to be written,
\* after the lint run and after the warnings and the failed status of a run
\* with findings, and nothing is written to the summary.
C5_PrefixBeforeLintSinkAtWrite ==
  /\ (inputs.prefix = <<>> /\ pc \notin {"idle", "inputs"}) =>
       /\ pc = "error" /\ error = PrefixError
       /\ ~lintInvoked /\ warnings = <<>> /\ failed = <<>> /\ summary = <<>>
  /\ (pc = "error" /\ error = SummaryEnvError) =>
       /\ inputs.summaryFile = "undefined" /\ summary = <<>>
       /\ lintInvoked /\ ReportParsed
       /\ Len(warnings) = TotalFindings
       /\ (failed # <<>>) <=> (TotalFindings > 0)

C5_Witness ==
  pc = "error" /\ error = PrefixError /\ inputs.summaryFile = "summary.md"

\* C6: when the lint process ends with a status other than 0 (non-zero exit,
\* or none because of the timeout) or its output is not JSON, the run is
\* aborted with an error: no warning, no failed status and no summary.
C6_LintFailureAborts ==
  (lintInvoked /\ (proc.status # 0 \/ proc.stdout.kind = "text")) =>
    /\ warnings = <<>> /\ summary = <<>> /\ failed = <<>>
    /\ proc.status # 0 => pc = "error"
    /\ pc \in {"parse", "error"}

C6_Witness ==
  /\ pc = "error" /\ proc.status = NullStatus /\ error = "ETIMEDOUT"
  /\ proc.stdout.kind = "report" /\ Len(proc.stdout.value) = 1

\* C7: when the diff between base and head cannot be computed the run ends
\* in an error, without warnings and without a summary; it is never completed.
C7_DiffFailureIsFatal ==
  (lintInvoked /\ ~diff.ok) => pc # "done" /\ warnings = <<>> /\ summary = <<>>

EndsWith(s, suffix) ==
  Len(s) >= Len(suffix) /\ SubSeq(s, Len(s) - Len(suffix) + 1, Len(s)) = suffix

LintableExtensions == { <<".","j","s">>, <<".","j","s","x">>, <<".","t","s">>, <<".","t","s","x">> }

\* no added/copied/modified/renamed file under the prefix has a lintable extension
NoLintableChange ==
  \A i \in diff.changed :
    ~ /\ Candidates[i].status \in DiffFilter
      /\ StartsWith(Candidates[i].path, Prefix \o <<"/">>)
      /\ \E e \in LintableExtensions : EndsWith(Candidates[i].path, e)

\* C8: a completed run in which no changed file under the prefix has one of
\* the extensions .js, .jsx, .ts, .tsx has zero findings, is not failed, has
\* no warnings and has written the positive summary.
C8_NoLintableFilesIsClean ==
  (pc = "done" /\ lintInvoked /\ diff.ok /\ NoLintableChange) =>
    /\ totalErrors = 0 /\ failed = <<>> /\ warnings = <<>>
    /\ summary = <<AwesomeSummary>>

ExpectedEmoji(n) ==
  IF n \in 1..10 THEN ":worried:"
  ELSE IF n \in 11..100 THEN ":disappointed_relieved:"
  ELSE ":sob:"

\* C9: the emoji function is only ever applied to a count N >= 1 and yields
\* :worried: for 1..10, :disappointed_relieved: for 11..100 and :sob: above
\* 100; the written summary carries that emoji.
C9_EmojiBoundaries ==
  /\ \A k \in 1..Len(emojiCalls) :
       /\ emojiCalls[k].numberOfErrors >= 1
       /\ emojiCalls[k].emoji = ExpectedEmoji(emojiCalls[k].numberOfErrors)
  /\ (pc = "done" /\ totalErrors > 0) =>
       /\ Len(emojiCalls) = 1 /\ emojiCalls[1].numberOfErrors = TotalFindings
       /\ summary = << "## Found " \o ToString(TotalFindings)
                       \o " linter hints in the changed code. "
                       \o ExpectedEmoji(TotalFindings) >>
  /\ (pc = "done" /\ totalErrors = 0) => emojiCalls = <<>>

C9_Witness ==
  /\ pc = "done" /\ Len(emojiCalls) = 1
  /\ emojiCalls[1] = [numberOfErrors |-> 100, emoji |-> ":disappointed_relieved:"]

EslintDocs == "https://eslint.org/docs/rules/"
JestDocs == "https://github.com/jest-community/eslint-plugin-jest/blob/main/docs/rules/"
TestingLibraryDocs == "https://github.com/testing-library/eslint-plugin-testing-library/blob/main/docs/rules/"
TypescriptDocs == "https://github.com/typescript-eslint/typescript-eslint/blob/main/packages/eslint-plugin/docs/rules/"
NoRuleInformation == <<"No further rule information available.">>

\* the documented pointer for each rule the linter may report
ExpectedRuleMessage ==
  << <<"See ", EslintDocs, "s","e","m","i", " for details.">>,
     <<"See ", JestDocs, "n","o","-","i","f", ".md", " for details.">>,
     NoRuleInformation,
     <<"See ", TestingLibraryDocs, "n","o","-","d","o","m", ".md", " for details.">>,
     <<"See ", TypescriptDocs, "b","a","n", ".md", " for details.">>,
     <<"See ", JestDocs, "a", ".md", " for details.">>,
     NoRuleInformation >>

RuleIndex(r) == CHOOSE k \in 1..Len(Rules) : Rules[k] = r

\* C10: every rule of a reported finding resolves, without failing, to the
\* documentation pointer of its namespace (the text before the first '/'):
\* eslint.org for a rule without namespace, the plugin page of the rule id
\* for jest, testing-library and @typescript-eslint, and the generic
\* no-information message for any other namespace.
C10_RuleMessageByNamespace ==
  (ReportParsed /\ ReporterEnded) =>
    \A j \in 1..Len(results.value) :
      \A i \in 1..Len(results.value[j].messages) :
        warnings[FindingsBefore(results.value, j) + i].message
          = ExpectedRuleMessage[RuleIndex(results.value[j].messages[i].ruleId)]

C10_Witness ==
  /\ pc = "done" /\ Len(warnings) = 11
  /\ warnings[3].message = NoRuleInformation
  /\ warnings[6].message = <<"See ", JestDocs, "a", ".md", " for details.">>

====
